---- MODULE Spec2Model ----
(***************************************************************************)
(* The durable transmission queue of the FHIR bridge (offline_queue.rs):   *)
(* the table pending_bundles, the SQL statements that OfflineQueue issues  *)
(* against it, and the wall clock the statements read.                     *)
(***************************************************************************)
EXTENDS Integers, Sequences, FiniteSets, TLC

VARIABLES
    pending_bundles,  \* the table: a sequence of rows in insertion order
    now,              \* Utc::now(), in whole days since the start of the run
    last,             \* the last call made on the queue and what it returned
    conn,             \* per connection: the call in progress, statement by statement
    failures,         \* per row id: the record_failure calls that have returned
    batch,            \* the rows the poller fetched and has not reported on yet
    cr                \* the Client Registry lookup: environment, last call, its result

vars == <<pending_bundles, now, last, conn, failures, batch, cr>>

----------------------------------------------------------------------------
(* Bounds of the model. *)

MaxRows == 2        \* rows that enqueue may insert
MaxFailures == 10   \* record_failure calls that change a row, over all rows
MaxTime == 8        \* the clock stops here
MaxCalls == 3       \* calls made on all connections together
MaxConcRows == 1    \* rows that concurrent connections may insert
MaxDeployRows == 1  \* rows that the producers of the deployment enqueue
MaxStatsRows == 3   \* rows enqueued while stats is watched
MaxStoreRows == 1   \* rows enqueued while the store may reject statements
MaxRuns == 2        \* runs of the process that resolve identifiers
MaxCeilingRows == 1 \* rows enqueued while failures run up to the ceiling
MaxFrameRows == 2   \* rows enqueued while the other rows are watched
MaxFrameFailures == 2   \* record_failure calls while the other rows are watched

(* Program constants. *)

RetryCeiling == 10  \* WHEN retry_count + 1 >= 10
WindowDays == 7     \* chrono::Duration::days(7)

(* The first day of the run is 2025-01-25, so that the run crosses a month. *)
EpochYear == 2025
EpochDayOfMonth == 25
DaysInJanuary == 31

(* Inputs. *)
BundleIds == {"b1"}
Payloads == {"{}"}
PatientIds == {"p1"}
ClinicIds == {"c1"}
Errors == {"timeout"}
TickDays == {7, 8}
RowIds == 1..(MaxRows + 1)
Conns == {"A", "B"}

NULL == "NULL"
ExpiredText == "Transmission window (7 days) expired"

----------------------------------------------------------------------------
(* BundleStatus::as_str *)
Pending == "pending"
Sent == "sent"
Failed == "failed"

(* DateTime<Utc>::to_rfc3339 of a day t of the run: the digits of           *)
(* YYYY-MM-DDT00:00:00+00:00 that vary, zero padded as chrono pads them.    *)
Pad2(n) == <<n \div 10, n % 10>>

Pad4(n) == <<n \div 1000, (n \div 100) % 10, (n \div 10) % 10, n % 10>>

to_rfc3339(t) ==
    LET dom == EpochDayOfMonth + t
    IN  IF dom <= DaysInJanuary
        THEN Pad4(EpochYear) \o Pad2(1) \o Pad2(dom)
        ELSE Pad4(EpochYear) \o Pad2(2) \o Pad2(dom - DaysInJanuary)

(* SQLite's comparison of two TEXT values (BINARY collation: memcmp, then   *)
(* the shorter one first).                                                  *)
RECURSIVE TextLess(_, _)
TextLess(a, b) ==
    IF a = <<>> THEN b # <<>>
    ELSE IF b = <<>> THEN FALSE
    ELSE IF Head(a) # Head(b) THEN Head(a) < Head(b)
    ELSE TextLess(Tail(a), Tail(b))

TextGeq(a, b) == ~TextLess(a, b)

(* cutoff = (Utc::now() - chrono::Duration::days(7)).to_rfc3339() *)
Cutoff(t) == to_rfc3339(t - WindowDays)

----------------------------------------------------------------------------
(* The SQL statements, as functions of the table. *)

MaxId(tbl) == IF Len(tbl) = 0 THEN 0 ELSE tbl[Len(tbl)].id

(* A variant of InsertRow: an INSERT OR REPLACE keyed on bundle_id, which     *)
(* overwrites the row that already carries the bundle_id.                    *)
InsertRowMerging(tbl, bundle_id, bundle_json, patient_id, clinic_id, created_at) ==
    IF \E i \in DOMAIN tbl : tbl[i].bundle_id = bundle_id
    THEN [i \in DOMAIN tbl |->
            IF tbl[i].bundle_id = bundle_id
            THEN [tbl[i] EXCEPT !.bundle_json = bundle_json,
                                !.patient_id = patient_id,
                                !.clinic_id = clinic_id,
                                !.created_at = created_at,
                                !.retry_count = 0,
                                !.last_error = NULL,
                                !.status = Pending]
            ELSE tbl[i]]
    ELSE Append(tbl, [id          |-> MaxId(tbl) + 1,
                      bundle_id   |-> bundle_id,
                      bundle_json |-> bundle_json,
                      patient_id  |-> patient_id,
                      clinic_id   |-> clinic_id,
                      created_at  |-> created_at,
                      retry_count |-> 0,
                      last_error  |-> NULL,
                      status      |-> Pending])

(* A variant of InsertRow: last_error declared NOT NULL DEFAULT '', so that   *)
(* a new row holds the empty text.                                           *)
InsertRowEmptyError(tbl, bundle_id, bundle_json, patient_id, clinic_id, created_at) ==
    Append(tbl, [id          |-> MaxId(tbl) + 1,
                 bundle_id   |-> bundle_id,
                 bundle_json |-> bundle_json,
                 patient_id  |-> patient_id,
                 clinic_id   |-> clinic_id,
                 created_at  |-> created_at,
                 retry_count |-> 0,
                 last_error  |-> "",
                 status      |-> Pending])

(* INSERT INTO pending_bundles (...) VALUES (?1, ?2, ?3, ?4, ?5, 'pending'): *)
(* id is AUTOINCREMENT, retry_count and last_error take their defaults.      *)
InsertRow(tbl, bundle_id, bundle_json, patient_id, clinic_id, created_at) ==
    Append(tbl, [id          |-> MaxId(tbl) + 1,
                 bundle_id   |-> bundle_id,
                 bundle_json |-> bundle_json,
                 patient_id  |-> patient_id,
                 clinic_id   |-> clinic_id,
                 created_at  |-> created_at,
                 retry_count |-> 0,
                 last_error  |-> NULL,
                 status      |-> Pending])

(* A variant of InWindow: created_at > ?1, which drops the row created       *)
(* exactly seven days ago.                                                   *)
InWindowStrict(r, cutoff) == r.status = Pending /\ TextLess(cutoff, r.created_at)

(* WHERE status = 'pending' AND created_at >= ?1 *)
InWindow(r, cutoff) == r.status = Pending /\ TextGeq(r.created_at, cutoff)

(* PendingBundle: the eight columns the SELECT reads. *)
PendingBundle(r) ==
    [row_id      |-> r.id,
     bundle_id   |-> r.bundle_id,
     bundle_json |-> r.bundle_json,
     patient_id  |-> r.patient_id,
     clinic_id   |-> r.clinic_id,
     created_at  |-> r.created_at,
     retry_count |-> r.retry_count,
     last_error  |-> r.last_error]

(* SELECT ... WHERE status = 'pending' AND created_at >= ?1                 *)
(* ORDER BY created_at ASC: every order of the matching rows that is sorted *)
(* by created_at (SQL leaves the order of equal keys open).                 *)
SelectPending(tbl, cutoff) ==
    LET match == {i \in DOMAIN tbl : InWindow(tbl[i], cutoff)}
        n == Cardinality(match)
    IN  {[k \in 1..n |-> PendingBundle(tbl[p[k]])] :
            p \in {q \in [1..n -> match] :
                     /\ \A i, j \in 1..n : i # j => q[i] # q[j]
                     /\ \A i, j \in 1..n :
                          i < j => ~TextLess(tbl[q[j]].created_at,
                                             tbl[q[i]].created_at)}}

(* A variant of UpdateSent: the UPDATE without its WHERE clause, which marks *)
(* every row sent.                                                          *)
UpdateSentAll(tbl, row_id) ==
    [i \in DOMAIN tbl |-> [tbl[i] EXCEPT !.status = Sent]]

(* A variant of UpdateSent: it also sets last_error to NULL on the row.      *)
UpdateSentClearing(tbl, row_id) ==
    [i \in DOMAIN tbl |->
        IF tbl[i].id = row_id
        THEN [tbl[i] EXCEPT !.status = Sent, !.last_error = NULL]
        ELSE tbl[i]]

(* UPDATE pending_bundles SET status = 'sent' WHERE id = ?1 *)
UpdateSent(tbl, row_id) ==
    [i \in DOMAIN tbl |->
        IF tbl[i].id = row_id
        THEN [tbl[i] EXCEPT !.status = Sent]
        ELSE tbl[i]]

(* A variant of UpdateFailure: the UPDATE without its status = CASE ... END,  *)
(* which counts the failure and leaves the status as it is.                  *)
UpdateFailureKeepingStatus(tbl, row_id, error) ==
    [i \in DOMAIN tbl |->
        IF tbl[i].id = row_id
        THEN [tbl[i] EXCEPT
                !.retry_count = tbl[i].retry_count + 1,
                !.last_error = error]
        ELSE tbl[i]]

(* A variant of UpdateFailure: WHEN retry_count >= 10, the ceiling tested on  *)
(* the count before the increment, so that the eleventh failure is terminal. *)
UpdateFailureLate(tbl, row_id, error) ==
    [i \in DOMAIN tbl |->
        IF tbl[i].id = row_id
        THEN [tbl[i] EXCEPT
                !.retry_count = tbl[i].retry_count + 1,
                !.last_error = error,
                !.status = IF tbl[i].retry_count >= RetryCeiling
                           THEN Failed ELSE Pending]
        ELSE tbl[i]]

(* A variant of UpdateFailure: the failure is noted but not counted, so the  *)
(* ceiling is never reached.                                                 *)
UpdateFailureUncounted(tbl, row_id, error) ==
    [i \in DOMAIN tbl |->
        IF tbl[i].id = row_id
        THEN [tbl[i] EXCEPT !.last_error = error, !.status = Pending]
        ELSE tbl[i]]

(* A variant of UpdateFailure: the UPDATE without its WHERE clause, which     *)
(* records the failure on every row.                                         *)
UpdateFailureAll(tbl, row_id, error) ==
    [i \in DOMAIN tbl |->
        [tbl[i] EXCEPT
            !.retry_count = tbl[i].retry_count + 1,
            !.last_error = error,
            !.status = IF tbl[i].retry_count + 1 >= RetryCeiling
                       THEN Failed ELSE Pending]]

(* UPDATE pending_bundles SET retry_count = retry_count + 1, last_error = ?2, *)
(* status = CASE WHEN retry_count + 1 >= 10 THEN 'failed' ELSE 'pending' END  *)
(* WHERE id = ?1                                                              *)
UpdateFailure(tbl, row_id, error) ==
    [i \in DOMAIN tbl |->
        IF tbl[i].id = row_id
        THEN [tbl[i] EXCEPT
                !.retry_count = tbl[i].retry_count + 1,
                !.last_error = error,
                !.status = IF tbl[i].retry_count + 1 >= RetryCeiling
                           THEN Failed ELSE Pending]
        ELSE tbl[i]]

(* A variant of Expirable: created_at <= ?1, which also expires the row      *)
(* created exactly seven days ago.                                           *)
ExpirableInclusive(r, cutoff) ==
    r.status = Pending /\ ~TextLess(cutoff, r.created_at)

(* WHERE status = 'pending' AND created_at < ?1 *)
Expirable(r, cutoff) == r.status = Pending /\ TextLess(r.created_at, cutoff)

(* A variant of UpdateExpired: DELETE FROM pending_bundles WHERE              *)
(* status = 'pending' AND created_at < ?1, which removes the expired rows.   *)
DeleteExpired(tbl, cutoff) ==
    SelectSeq(tbl, LAMBDA r : ~(r.status = Pending /\ TextLess(r.created_at, cutoff)))

(* A variant of UpdateExpired: it also sets retry_count back to 0.           *)
UpdateExpiredResetting(tbl, cutoff) ==
    [i \in DOMAIN tbl |->
        IF tbl[i].status = Pending /\ TextLess(tbl[i].created_at, cutoff)
        THEN [tbl[i] EXCEPT !.status = Failed, !.last_error = ExpiredText,
                            !.retry_count = 0]
        ELSE tbl[i]]

(* A variant of UpdateExpired: last_error = COALESCE(last_error, '...'),     *)
(* which keeps a delivery error that was recorded before.                   *)
UpdateExpiredKeepingError(tbl, cutoff) ==
    [i \in DOMAIN tbl |->
        IF Expirable(tbl[i], cutoff)
        THEN [tbl[i] EXCEPT !.status = Failed,
                            !.last_error = IF @ = NULL THEN ExpiredText ELSE @]
        ELSE tbl[i]]

(* UPDATE pending_bundles SET status = 'failed',                            *)
(* last_error = 'Transmission window (7 days) expired'                      *)
(* WHERE status = 'pending' AND created_at < ?1                             *)
UpdateExpired(tbl, cutoff) ==
    [i \in DOMAIN tbl |->
        IF Expirable(tbl[i], cutoff)
        THEN [tbl[i] EXCEPT !.status = Failed, !.last_error = ExpiredText]
        ELSE tbl[i]]

(* The number of rows the UPDATE changed (Connection::execute's result). *)
ExpiredCount(tbl, cutoff) ==
    Cardinality({i \in DOMAIN tbl : Expirable(tbl[i], cutoff)})

(* A variant of CountStatus: SELECT COUNT(DISTINCT bundle_id), which counts  *)
(* the rows of one bundle once.                                              *)
CountStatusDistinct(tbl, s) ==
    Cardinality({tbl[i].bundle_id : i \in {k \in DOMAIN tbl : tbl[k].status = s}})

(* SELECT COUNT FROM pending_bundles WHERE status = ? *)
CountStatus(tbl, s) == Cardinality({i \in DOMAIN tbl : tbl[i].status = s})

QueueStats(p, s, f) == [pending |-> p, sent |-> s, failed |-> f]

(* Reading the table. *)

HasRow(tbl, id) == \E i \in DOMAIN tbl : tbl[i].id = id

RowById(tbl, id) == tbl[CHOOSE i \in DOMAIN tbl : tbl[i].id = id]

(* The day of the run a created_at text stands for. *)
TimeOf(text) ==
    LET month == 10 * text[5] + text[6]
        dom == 10 * text[7] + text[8]
    IN  IF month = 1 THEN dom - EpochDayOfMonth
        ELSE dom + DaysInJanuary - EpochDayOfMonth

Terminal(r) == r.status \in {Sent, Failed}

----------------------------------------------------------------------------
(* The operations of OfflineQueue, each called and returning in one step on *)
(* one connection.                                                          *)

Call(op, args, ret) == [op |-> op, args |-> args, ret |-> ret]

Idle == [op |-> "idle", args |-> <<>>, pc |-> 0, acc |-> <<>>, ret |-> "none",
         seen |-> {}, calls |-> 0]

(* No Client Registry lookup has been made and its environment variables   *)
(* are not set.  `seen` is history: the run, the national_id and the        *)
(* identifier of every call made so far, in this run and in earlier ones,   *)
(* while AFYALINK_TOKEN was not set; `run` counts the runs of the process.  *)
NoLookup ==
    [AFYALINK_TOKEN    |-> <<>>,
     AFYALINK_BASE_URL |-> <<>>,
     national_id       |-> "",
     requests          |-> <<>>,
     output            |-> <<>>,
     result            |-> <<>>,
     seen              |-> {},
     run               |-> 1]

(* OfflineQueue::open on a new database file: the table is empty. *)
Init ==
    /\ pending_bundles = <<>>
    /\ now = 0
    /\ last = Call("open", <<>>, "Ok")
    /\ conn = [c \in Conns |-> Idle]
    /\ failures = [id \in RowIds |-> 0]
    /\ batch = <<>>
    /\ cr = NoLookup

enqueue(bundle_id, bundle_json, patient_id, clinic_id) ==
    /\ pending_bundles' = InsertRow(pending_bundles, bundle_id, bundle_json,
                                    patient_id, clinic_id, to_rfc3339(now))
    /\ last' = Call("enqueue", <<bundle_id, bundle_json, patient_id, clinic_id>>,
                    MaxId(pending_bundles'))
    /\ UNCHANGED <<now, conn, failures, batch, cr>>

pending_within_window ==
    /\ \E rows \in SelectPending(pending_bundles, Cutoff(now)) :
          last' = Call("pending_within_window", <<>>, rows)
    /\ UNCHANGED <<pending_bundles, now, conn, failures, batch, cr>>

mark_sent(row_id) ==
    /\ pending_bundles' = UpdateSent(pending_bundles, row_id)
    /\ last' = Call("mark_sent", <<row_id>>, "Ok")
    /\ UNCHANGED <<now, conn, failures, batch, cr>>

record_failure(row_id, error) ==
    /\ pending_bundles' = UpdateFailure(pending_bundles, row_id, error)
    /\ last' = Call("record_failure", <<row_id, error>>, "Ok")
    /\ UNCHANGED <<now, conn, failures, batch, cr>>

expire_old_bundles ==
    /\ pending_bundles' = UpdateExpired(pending_bundles, Cutoff(now))
    /\ last' = Call("expire_old_bundles", <<>>,
                    ExpiredCount(pending_bundles, Cutoff(now)))
    /\ UNCHANGED <<now, conn, failures, batch, cr>>

stats ==
    /\ last' = Call("stats", <<>>,
                    QueueStats(CountStatus(pending_bundles, Pending),
                               CountStatus(pending_bundles, Sent),
                               CountStatus(pending_bundles, Failed)))
    /\ UNCHANGED <<pending_bundles, now, conn, failures, batch, cr>>

(* Time passes between two calls. *)
Tick(d) ==
    /\ now' = now + d
    /\ UNCHANGED <<pending_bundles, last, conn, failures, batch, cr>>

RECURSIVE SumRetries(_)
SumRetries(tbl) ==
    IF tbl = <<>> THEN 0 ELSE Head(tbl).retry_count + SumRetries(Tail(tbl))

Next ==
    \/ \E b \in BundleIds, j \in Payloads, p \in PatientIds, c \in ClinicIds :
          Len(pending_bundles) < MaxRows /\ enqueue(b, j, p, c)
    \/ pending_within_window
    \/ \E id \in RowIds : mark_sent(id)
    \/ \E id \in RowIds, e \in Errors :
          SumRetries(pending_bundles) < MaxFailures /\ record_failure(id, e)
    \/ expire_old_bundles
    \/ stats
    \/ \E d \in TickDays : now + d <= MaxTime /\ Tick(d)

Spec == Init /\ [][Next]_vars

----------------------------------------------------------------------------
(* Several connections to the same database file.  A call reads the clock,  *)
(* then runs its SQL statements one at a time; SQLite runs each statement   *)
(* as one transaction, so the statements of different connections           *)
(* interleave but a single statement is never split.                        *)

ReadOps == {"pending_within_window", "stats"}

(* The database states a read in progress has lived through. *)
Observe(cn, tbl) ==
    [c \in Conns |->
        IF cn[c].pc > 0 /\ cn[c].op \in ReadOps
        THEN [cn[c] EXCEPT !.seen = @ \cup {tbl}]
        ELSE cn[c]]

Returned(cn, c, ret) == [cn EXCEPT ![c].pc = 0, ![c].ret = ret]

ConnCall(c, op, args) ==
    /\ conn[c].pc = 0
    /\ conn' = [conn EXCEPT ![c] =
                  [op |-> op, args |-> args, pc |-> 1, acc |-> <<>>,
                   ret |-> "none",
                   seen |-> IF op \in ReadOps THEN {pending_bundles} ELSE {},
                   calls |-> conn[c].calls + 1]]
    /\ UNCHANGED <<pending_bundles, now, last, failures, batch, cr>>

EnqueueStmt(c) ==
    /\ conn[c].op = "enqueue" /\ conn[c].pc = 1
    /\ LET a == conn[c].args
       IN  pending_bundles' = InsertRow(pending_bundles, a[1], a[2], a[3], a[4], a[5])
    /\ conn' = Observe(Returned(conn, c, MaxId(pending_bundles')), pending_bundles')
    /\ UNCHANGED <<now, last, failures, batch, cr>>

PendingStmt(c) ==
    /\ conn[c].op = "pending_within_window" /\ conn[c].pc = 1
    /\ \E rows \in SelectPending(pending_bundles, conn[c].args[1]) :
          conn' = Returned(conn, c, rows)
    /\ UNCHANGED <<pending_bundles, now, last, failures, batch, cr>>

MarkSentStmt(c) ==
    /\ conn[c].op = "mark_sent" /\ conn[c].pc = 1
    /\ pending_bundles' = UpdateSent(pending_bundles, conn[c].args[1])
    /\ conn' = Observe(Returned(conn, c, "Ok"), pending_bundles')
    /\ UNCHANGED <<now, last, failures, batch, cr>>

(* One more record_failure call has returned after its UPDATE found the row. *)
Counted(f, tbl, id) ==
    IF HasRow(tbl, id) THEN [f EXCEPT ![id] = @ + 1] ELSE f

(* A variant of RecordFailureStmt: the count is read by one statement and   *)
(* written back, incremented, by a second one.                              *)
RecordFailureStmtSplit(c) ==
    /\ conn[c].op = "record_failure"
    /\ LET id == conn[c].args[1]
           e == conn[c].args[2]
       IN  \/ /\ conn[c].pc = 1
              /\ conn' = [conn EXCEPT
                            ![c].pc = 2,
                            ![c].acc = <<IF HasRow(pending_bundles, id)
                                         THEN RowById(pending_bundles, id).retry_count
                                         ELSE 0>>]
              /\ UNCHANGED <<pending_bundles, failures>>
           \/ /\ conn[c].pc = 2
              /\ pending_bundles' =
                    [i \in DOMAIN pending_bundles |->
                        IF pending_bundles[i].id = id
                        THEN [pending_bundles[i] EXCEPT
                                !.retry_count = conn[c].acc[1] + 1,
                                !.last_error = e,
                                !.status = IF conn[c].acc[1] + 1 >= RetryCeiling
                                           THEN Failed ELSE Pending]
                        ELSE pending_bundles[i]]
              /\ conn' = Observe(Returned(conn, c, "Ok"), pending_bundles')
              /\ failures' = Counted(failures, pending_bundles, id)
    /\ UNCHANGED <<now, last, batch, cr>>

RecordFailureStmt(c) ==
    /\ conn[c].op = "record_failure" /\ conn[c].pc = 1
    /\ pending_bundles' = UpdateFailure(pending_bundles, conn[c].args[1],
                                        conn[c].args[2])
    /\ conn' = Observe(Returned(conn, c, "Ok"), pending_bundles')
    /\ failures' = Counted(failures, pending_bundles, conn[c].args[1])
    /\ UNCHANGED <<now, last, batch, cr>>

ExpireStmt(c) ==
    /\ conn[c].op = "expire_old_bundles" /\ conn[c].pc = 1
    /\ pending_bundles' = UpdateExpired(pending_bundles, conn[c].args[1])
    /\ conn' = Observe(Returned(conn, c,
                                ExpiredCount(pending_bundles, conn[c].args[1])),
                       pending_bundles')
    /\ UNCHANGED <<now, last, failures, batch, cr>>

(* stats: three query_row calls, one statement each. *)
StatsStmt(c) ==
    /\ conn[c].op = "stats"
    /\ \/ /\ conn[c].pc = 1
          /\ conn' = [conn EXCEPT
                        ![c].pc = 2,
                        ![c].acc = <<CountStatus(pending_bundles, Pending)>>]
       \/ /\ conn[c].pc = 2
          /\ conn' = [conn EXCEPT
                        ![c].pc = 3,
                        ![c].acc = Append(@, CountStatus(pending_bundles, Sent))]
       \/ /\ conn[c].pc = 3
          /\ conn' = Returned(conn, c,
                        QueueStats(conn[c].acc[1], conn[c].acc[2],
                                   CountStatus(pending_bundles, Failed)))
    /\ UNCHANGED <<pending_bundles, now, last, failures, batch, cr>>

RECURSIVE FailTimes(_, _, _, _)
FailTimes(tbl, id, e, n) ==
    IF n = 0 THEN tbl ELSE FailTimes(UpdateFailure(tbl, id, e), id, e, n - 1)

(* The database files open may find: a new one, or one in which an earlier  *)
(* run enqueued a bundle and recorded failures on it up to two short of the *)
(* ceiling.                                                                 *)
StoresFound ==
    {<<>>,
     FailTimes(InsertRow(<<>>, "b1", "{}", "p1", "c1", to_rfc3339(0)),
               1, "timeout", RetryCeiling - 2)}

InitConc ==
    /\ pending_bundles \in StoresFound
    /\ now = 0
    /\ last = Call("open", <<>>, "Ok")
    /\ conn = [c \in Conns |-> Idle]
    /\ failures = [id \in RowIds |->
                     IF HasRow(pending_bundles, id)
                     THEN RowById(pending_bundles, id).retry_count ELSE 0]
    /\ batch = <<>>
    /\ cr = NoLookup

(* The calls made so far on all connections. *)
CallsMade == conn["A"].calls + conn["B"].calls

NextConc ==
    \/ \E c \in Conns, b \in BundleIds, j \in Payloads, p \in PatientIds,
          cl \in ClinicIds :
          /\ CallsMade < MaxCalls /\ Len(pending_bundles) < MaxConcRows
          /\ ConnCall(c, "enqueue", <<b, j, p, cl, to_rfc3339(now)>>)
    \/ \E c \in Conns :
          CallsMade < MaxCalls
          /\ ConnCall(c, "pending_within_window", <<Cutoff(now)>>)
    \/ \E c \in Conns, id \in 1..(MaxConcRows + 1) :
          CallsMade < MaxCalls /\ ConnCall(c, "mark_sent", <<id>>)
    \/ \E c \in Conns, id \in 1..(MaxConcRows + 1), e \in Errors :
          CallsMade < MaxCalls /\ ConnCall(c, "record_failure", <<id, e>>)
    \/ \E c \in Conns :
          CallsMade < MaxCalls
          /\ ConnCall(c, "expire_old_bundles", <<Cutoff(now)>>)
    \/ \E c \in Conns : CallsMade < MaxCalls /\ ConnCall(c, "stats", <<>>)
    \/ \E c \in Conns : EnqueueStmt(c)
    \/ \E c \in Conns : PendingStmt(c)
    \/ \E c \in Conns : MarkSentStmt(c)
    \/ \E c \in Conns : RecordFailureStmt(c)
    \/ \E c \in Conns : ExpireStmt(c)
    \/ \E c \in Conns : StatsStmt(c)
    \/ \E d \in TickDays : now + d <= MaxTime /\ Tick(d)

SpecConc == InitConc /\ [][NextConc]_vars

----------------------------------------------------------------------------
(* C5: concurrent record_failure calls on one row lose no increment: when   *)
(* no record_failure is in progress, every row's retry_count is the number  *)
(* of record_failure calls on it that have returned, and a row that has     *)
(* reached the ceiling is not pending.                                      *)
C5_NoLostIncrement ==
    (\A c \in Conns : ~(conn[c].op = "record_failure" /\ conn[c].pc > 0))
    => \A i \in DOMAIN pending_bundles :
          /\ pending_bundles[i].retry_count = failures[pending_bundles[i].id]
          /\ pending_bundles[i].retry_count >= RetryCeiling
                => pending_bundles[i].status # Pending

(* Both connections have returned from record_failure on the same row,      *)
(* which took it from two short of the ceiling to the ceiling.              *)
C5_BothReturned ==
    /\ \A c \in Conns :
          /\ conn[c].op = "record_failure" /\ conn[c].pc = 0
          /\ conn[c].calls = 1
          /\ conn[c].args[1] = 1
    /\ HasRow(pending_bundles, 1)
    /\ RowById(pending_bundles, 1).retry_count = RetryCeiling
    /\ RowById(pending_bundles, 1).status = Failed

(* C6: a read that runs while other connections write returns what one      *)
(* database state between its call and its return held: stats the three     *)
(* counts of that state, pending_within_window the rows of that state.      *)
C6_ConsistentSnapshot ==
    \A c \in Conns :
       conn[c].pc = 0 =>
          /\ conn[c].op = "stats" =>
                \E t \in conn[c].seen :
                   conn[c].ret = QueueStats(CountStatus(t, Pending),
                                            CountStatus(t, Sent),
                                            CountStatus(t, Failed))
          /\ conn[c].op = "pending_within_window" =>
                \E t \in conn[c].seen :
                   conn[c].ret \in SelectPending(t, conn[c].args[1])

----------------------------------------------------------------------------
(* The intended deployment: producers enqueue; one poller fetches the       *)
(* pending rows in the window, attempts delivery for each row in turn and   *)
(* reports mark_sent or record_failure; a sweeper calls expire_old_bundles  *)
(* again and again; time advances.                                          *)

Produce ==
    /\ Len(pending_bundles) < MaxDeployRows
    /\ \E b \in BundleIds, j \in Payloads, p \in PatientIds, c \in ClinicIds :
          pending_bundles' = InsertRow(pending_bundles, b, j, p, c,
                                       to_rfc3339(now))
    /\ UNCHANGED <<now, last, conn, failures, batch, cr>>

Poll ==
    /\ batch = <<>>
    /\ \E rows \in SelectPending(pending_bundles, Cutoff(now)) :
          batch' = [k \in DOMAIN rows |-> rows[k].row_id]
    /\ UNCHANGED <<pending_bundles, now, last, conn, failures, cr>>

Report ==
    /\ batch # <<>>
    /\ \/ pending_bundles' = UpdateSent(pending_bundles, Head(batch))
       \/ \E e \in Errors :
             pending_bundles' = UpdateFailure(pending_bundles, Head(batch), e)
    /\ batch' = Tail(batch)
    /\ UNCHANGED <<now, last, conn, failures, cr>>

Sweep ==
    /\ pending_bundles' = UpdateExpired(pending_bundles, Cutoff(now))
    /\ UNCHANGED <<now, last, conn, failures, batch, cr>>

Advance == \E d \in TickDays : now + d <= MaxTime /\ Tick(d)

NextDeploy == Produce \/ Poll \/ Report \/ Sweep \/ Advance

(* The poller reports on every row it fetched and polls again, the sweeper   *)
(* keeps sweeping and the clock keeps running.                               *)
SpecDeploy ==
    /\ Init
    /\ [][NextDeploy]_vars
    /\ WF_vars(Poll)
    /\ WF_vars(Report)
    /\ WF_vars(Sweep)
    /\ WF_vars(Advance)

----------------------------------------------------------------------------
(* C7: in the intended deployment every enqueued row eventually reaches     *)
(* sent or failed and from some point on stays terminal; no row stays       *)
(* pending forever.                                                         *)
C7_EventuallyTerminal ==
    \A i \in 1..MaxDeployRows :
       [](i \in DOMAIN pending_bundles
             => <>[](/\ i \in DOMAIN pending_bundles
                     /\ Terminal(pending_bundles[i])))

(* The poller has reported its last fetch and a row it kept failing to      *)
(* deliver has reached the retry ceiling and is failed.                     *)
C7_RetriedToCeiling ==
    /\ batch = <<>>
    /\ \E i \in DOMAIN pending_bundles :
          /\ pending_bundles[i].retry_count = RetryCeiling
          /\ pending_bundles[i].status = Failed
          /\ pending_bundles[i].last_error \in Errors

----------------------------------------------------------------------------
(* C1: once a row is sent, no call changes its status again.  As stated,   *)
(* every step keeps a sent row sent.                                        *)
C1_SentIsTerminal ==
    [][\A i \in DOMAIN pending_bundles :
          pending_bundles[i].status = Sent => pending_bundles'[i].status = Sent]_vars

(* C2: once a row is failed, no call changes its status again.  As stated, *)
(* every step keeps a failed row failed.                                    *)
C2_FailedIsTerminal ==
    [][\A i \in DOMAIN pending_bundles :
          pending_bundles[i].status = Failed
              => pending_bundles'[i].status = Failed]_vars

(* C3: record_failure(row_id, msg) on a pending row with retry_count n      *)
(* stores n + 1 and msg, and the row is failed exactly when n + 1 >= 10,    *)
(* pending otherwise; the call returns Ok.                                  *)
C3_RecordFailureOnPending ==
    [][\A id \in RowIds, e \in Errors :
          (/\ last'.op = "record_failure"
           /\ record_failure(id, e)
           /\ HasRow(pending_bundles, id)
           /\ RowById(pending_bundles, id).status = Pending)
          => LET r == RowById(pending_bundles, id)
                 r2 == RowById(pending_bundles', id)
             IN  /\ r2.retry_count = r.retry_count + 1
                 /\ r2.last_error = e
                 /\ (r.retry_count + 1 >= 10 => r2.status = Failed)
                 /\ (r.retry_count + 1 < 10 => r2.status = Pending)
                 /\ last'.ret = "Ok"]_vars

(* The tenth failure has been recorded on a row and made it failed. *)
C3_TenthFailureRecorded ==
    /\ last.op = "record_failure"
    /\ HasRow(pending_bundles, last.args[1])
    /\ LET r == RowById(pending_bundles, last.args[1])
       IN  /\ r.retry_count = 10
           /\ r.status = Failed
           /\ r.last_error = last.args[2]

(* C4: for a row at the retry ceiling and older than the window, once the   *)
(* first of record_failure and expire_old_bundles has made it failed, the   *)
(* other one leaves the row as it is.                                       *)
C4_SecondIsNoOp ==
    [][\A i \in DOMAIN pending_bundles :
          LET r == pending_bundles[i]
          IN  (/\ r.status = Failed
               /\ r.retry_count >= RetryCeiling - 1
               /\ TimeOf(r.created_at) < now - WindowDays
               /\ \/ expire_old_bundles
                  \/ \E e \in Errors : record_failure(r.id, e))
              => pending_bundles'[i] = r]_vars

(* C8: pending_within_window returns exactly the rows that are pending and *)
(* were created no earlier than seven days before now, oldest first, and    *)
(* changes no row.                                                          *)
C8_PendingWithinWindow ==
    [][(last'.op = "pending_within_window" /\ pending_within_window)
          => LET rows == last'.ret
                 due == {i \in DOMAIN pending_bundles :
                            /\ pending_bundles[i].status = Pending
                            /\ TimeOf(pending_bundles[i].created_at)
                                   >= now - WindowDays}
             IN  /\ Len(rows) = Cardinality(due)
                 /\ {rows[k] : k \in DOMAIN rows}
                        = {PendingBundle(pending_bundles[i]) : i \in due}
                 /\ \A j, k \in DOMAIN rows :
                        j < k => TimeOf(rows[j].created_at)
                                     <= TimeOf(rows[k].created_at)
                 /\ pending_bundles' = pending_bundles]_vars

(* pending_within_window has returned a younger row and left out a pending *)
(* row that is past the window.                                             *)
C8_WindowListed ==
    /\ last.op = "pending_within_window"
    /\ Len(last.ret) >= 1
    /\ \E i \in DOMAIN pending_bundles :
          /\ pending_bundles[i].status = Pending
          /\ \A k \in DOMAIN last.ret : last.ret[k].row_id # pending_bundles[i].id

(* C9: expire_old_bundles makes failed exactly the pending rows created     *)
(* more than seven days before now, returns how many they are, and leaves   *)
(* every other row as it is; those rows are the pending rows that           *)
(* pending_within_window leaves out.                                        *)
C9_ExpireOldBundles ==
    [][(last'.op = "expire_old_bundles" /\ expire_old_bundles)
          => LET old == {i \in DOMAIN pending_bundles :
                            /\ pending_bundles[i].status = Pending
                            /\ TimeOf(pending_bundles[i].created_at)
                                   < now - WindowDays}
             IN  /\ last'.ret = Cardinality(old)
                 /\ DOMAIN pending_bundles' = DOMAIN pending_bundles
                 /\ \A i \in DOMAIN pending_bundles :
                       IF i \in old
                       THEN /\ pending_bundles'[i].status = Failed
                            /\ [pending_bundles'[i] EXCEPT
                                   !.status = Pending,
                                   !.last_error = pending_bundles[i].last_error]
                                 = pending_bundles[i]
                            /\ \A rows \in SelectPending(pending_bundles,
                                                         Cutoff(now)) :
                                  \A k \in DOMAIN rows :
                                     rows[k].row_id # pending_bundles[i].id
                       ELSE pending_bundles'[i] = pending_bundles[i]]_vars

(* The sweep has expired a row and passed over a pending row in the window. *)
C9_SweepExpiredSome ==
    /\ last.op = "expire_old_bundles"
    /\ last.ret >= 1
    /\ \E i \in DOMAIN pending_bundles : pending_bundles[i].status = Pending
    /\ \E i \in DOMAIN pending_bundles :
          /\ pending_bundles[i].status = Failed
          /\ pending_bundles[i].last_error = ExpiredText

(* C10: enqueue adds one row, pending, with retry_count 0, no last_error    *)
(* and created_at = now, under an id no row had, and changes no other row.  *)
C10_EnqueueAddsOneRow ==
    [][\A b \in BundleIds, j \in Payloads, p \in PatientIds, c \in ClinicIds :
          enqueue(b, j, p, c)
          => LET n == Len(pending_bundles)
                 r == pending_bundles'[n + 1]
             IN  /\ Len(pending_bundles') = n + 1
                 /\ SubSeq(pending_bundles', 1, n) = pending_bundles
                 /\ r.status = Pending
                 /\ r.retry_count = 0
                 /\ r.last_error = NULL
                 /\ TimeOf(r.created_at) = now
                 /\ <<r.bundle_id, r.bundle_json, r.patient_id, r.clinic_id>>
                        = <<b, j, p, c>>
                 /\ last'.ret = r.id
                 /\ ~HasRow(pending_bundles, r.id)]_vars

(* A second enqueue of the same bundle_id has returned: two rows, two ids. *)
C10_SameBundleTwice ==
    /\ last.op = "enqueue"
    /\ Len(pending_bundles) >= 2
    /\ \E i, k \in DOMAIN pending_bundles :
          /\ i # k
          /\ pending_bundles[i].bundle_id = pending_bundles[k].bundle_id
          /\ pending_bundles[i].id # pending_bundles[k].id
          /\ pending_bundles[k].id = last.ret

----------------------------------------------------------------------------
(* C11: mark_sent(row_id) on a pending row makes it sent and changes nothing *)
(* else, so that pending_within_window no longer returns the row and the    *)
(* sent count is larger by 1; on a row that is already sent it changes      *)
(* nothing; on a row_id that no row has it returns Ok and leaves the whole  *)
(* table as it was.                                                         *)
C11_MarkSent ==
    [][\A id \in RowIds :
          (last'.op = "mark_sent" /\ mark_sent(id))
          => /\ last'.ret = "Ok"
             /\ DOMAIN pending_bundles' = DOMAIN pending_bundles
             /\ \A i \in DOMAIN pending_bundles :
                   pending_bundles[i].id # id
                      => pending_bundles'[i] = pending_bundles[i]
             /\ ~HasRow(pending_bundles, id)
                   => pending_bundles' = pending_bundles
             /\ (HasRow(pending_bundles, id)
                 /\ RowById(pending_bundles, id).status = Sent)
                   => pending_bundles' = pending_bundles
             /\ (HasRow(pending_bundles, id)
                 /\ RowById(pending_bundles, id).status = Pending)
                   => /\ RowById(pending_bundles', id)
                            = [RowById(pending_bundles, id) EXCEPT !.status = Sent]
                      /\ \A rows \in SelectPending(pending_bundles', Cutoff(now)) :
                            \A k \in DOMAIN rows : rows[k].row_id # id
                      /\ Len(SelectSeq(pending_bundles', LAMBDA r : r.status = Sent))
                            = Len(SelectSeq(pending_bundles,
                                            LAMBDA r : r.status = Sent)) + 1]_vars

(* mark_sent has returned on a row that pending_within_window listed: the   *)
(* row is sent and another row is still pending.                            *)
C11_SentOneOfTwo ==
    /\ last.op = "mark_sent"
    /\ HasRow(pending_bundles, last.args[1])
    /\ RowById(pending_bundles, last.args[1]).status = Sent
    /\ RowById(pending_bundles, last.args[1]).retry_count = 0
    /\ \E i \in DOMAIN pending_bundles :
          /\ pending_bundles[i].id # last.args[1]
          /\ pending_bundles[i].status = Pending

(* C12: rows are never deleted: every step keeps every row under its id at  *)
(* its place in the table, in one of the three statuses, and the id enqueue *)
(* returns identifies a row.                                                *)
C12_RowsAreNeverDeleted ==
    [][/\ Len(pending_bundles') >= Len(pending_bundles)
       /\ \A i \in DOMAIN pending_bundles :
             /\ pending_bundles'[i].id = pending_bundles[i].id
             /\ pending_bundles'[i].bundle_id = pending_bundles[i].bundle_id
             /\ pending_bundles'[i].bundle_json = pending_bundles[i].bundle_json
             /\ pending_bundles'[i].status \in {Pending, Sent, Failed}
       /\ (last'.op = "enqueue" /\ last' # last)
             => HasRow(pending_bundles', last'.ret)]_vars

(* The table still holds a row that expired and a row that was sent. *)
C12_ExpiredAndSentKept ==
    /\ Len(pending_bundles) = MaxRows
    /\ \E i, k \in DOMAIN pending_bundles :
          /\ pending_bundles[i].status = Failed
          /\ pending_bundles[i].last_error = ExpiredText
          /\ pending_bundles[k].status = Sent

(* C14: retry_count starts at 0, never decreases, and changes only by a     *)
(* record_failure call on the row's id, which adds exactly 1; every other   *)
(* step leaves every retry_count as it was.                                 *)
C14_RetryCountFrame ==
    [][/\ \A i \in DOMAIN pending_bundles :
             LET r == pending_bundles[i]
                 failed_again == /\ last'.op = "record_failure"
                                 /\ \E e \in Errors : record_failure(r.id, e)
             IN  /\ failed_again
                    => pending_bundles'[i].retry_count = r.retry_count + 1
                 /\ ~failed_again
                    => pending_bundles'[i].retry_count = r.retry_count
       /\ \A i \in DOMAIN pending_bundles' :
             i \notin DOMAIN pending_bundles
                => pending_bundles'[i].retry_count = 0]_vars

(* A row that failed delivery twice has since been marked sent and has kept *)
(* its count.                                                               *)
C14_CountKeptWhenSent ==
    /\ last.op = "mark_sent"
    /\ HasRow(pending_bundles, last.args[1])
    /\ RowById(pending_bundles, last.args[1]).retry_count = 2
    /\ RowById(pending_bundles, last.args[1]).status = Sent

(* C15: last_error is never cleared: a row whose last_error is not NULL      *)
(* keeps a last_error that is not NULL, and a step changes a row's          *)
(* last_error only if it is record_failure on that row or an                *)
(* expire_old_bundles that expires that row.                                *)
C15_LastErrorKept ==
    [][\A i \in DOMAIN pending_bundles :
          LET r == pending_bundles[i]
          IN  /\ r.last_error # NULL => pending_bundles'[i].last_error # NULL
              /\ pending_bundles'[i].last_error # r.last_error
                    => \/ /\ last'.op = "record_failure"
                          /\ \E e \in Errors : record_failure(r.id, e)
                       \/ /\ last'.op = "expire_old_bundles"
                          /\ expire_old_bundles
                          /\ r.status = Pending
                          /\ TimeOf(r.created_at) < now - WindowDays]_vars

(* A row whose delivery failed was expired by the sweep, which replaced its *)
(* last_error, and was then marked sent: the text is still there.           *)
C15_ErrorKeptWhenSent ==
    /\ last.op = "mark_sent"
    /\ HasRow(pending_bundles, last.args[1])
    /\ RowById(pending_bundles, last.args[1]).retry_count >= 1
    /\ RowById(pending_bundles, last.args[1]).last_error = ExpiredText
    /\ RowById(pending_bundles, last.args[1]).status = Sent

----------------------------------------------------------------------------
(* The queue watched through stats: bundles are enqueued, delivery fails or *)
(* succeeds, and stats is read in between.                                  *)

NextStats ==
    \/ \E b \in BundleIds, j \in Payloads, p \in PatientIds, c \in ClinicIds :
          Len(pending_bundles) < MaxStatsRows /\ enqueue(b, j, p, c)
    \/ \E id \in 1..MaxStatsRows : mark_sent(id)
    \/ \E id \in 1..MaxStatsRows, e \in Errors :
          SumRetries(pending_bundles) < MaxFailures /\ record_failure(id, e)
    \/ stats

SpecStats == Init /\ [][NextStats]_vars

(* C13: what stats returned is, for each status, the number of rows now in  *)
(* that status, and the three numbers add up to the number of rows, which   *)
(* is the number of enqueue calls so far.                                   *)
C13_StatsCountsRows ==
    last.op = "stats"
    => LET InStatus(s) == Len(SelectSeq(pending_bundles, LAMBDA r : r.status = s))
       IN  /\ last.ret.pending = InStatus(Pending)
           /\ last.ret.sent = InStatus(Sent)
           /\ last.ret.failed = InStatus(Failed)
           /\ last.ret.pending + last.ret.sent + last.ret.failed
                 = Len(pending_bundles)
           /\ Len(pending_bundles) = MaxId(pending_bundles)
           /\ \A i \in DOMAIN pending_bundles :
                 pending_bundles[i].status \in {Pending, Sent, Failed}

(* Three bundles were enqueued, ten failures were recorded on the first,    *)
(* and stats has returned pending 2, sent 0, failed 1.                      *)
C13_TwoPendingOneFailed ==
    /\ last = Call("stats", <<>>, QueueStats(2, 0, 1))
    /\ Len(pending_bundles) = 3
    /\ pending_bundles[1].retry_count = 10
    /\ pending_bundles[2].retry_count = 0
    /\ pending_bundles[3].retry_count = 0

----------------------------------------------------------------------------
(* The store may reject a statement.  An operation is the list of the calls *)
(* it makes on the store, each followed by `?`: the first call the store    *)
(* rejects ends the operation with an error, and what the calls before it   *)
(* wrote stays written (every statement is its own transaction).            *)

Err == "Err"

CallIo(op, args, ret, rejected) ==
    [op |-> op, args |-> args, ret |-> ret, rejected |-> rejected]

Stmt(sql, args) == [sql |-> sql, args |-> args]

(* A variant of CreateIfNotExists: DROP TABLE IF EXISTS, then CREATE TABLE. *)
CreateAfresh(tbl) == <<>>

(* CREATE TABLE IF NOT EXISTS pending_bundles (...) and the two             *)
(* CREATE INDEX IF NOT EXISTS, on a file that holds the table.              *)
CreateIfNotExists(tbl) == tbl

(* What one call on the store does to the table. *)
Exec(tbl, st) ==
    CASE st.sql = "execute_batch CREATE" -> CreateIfNotExists(tbl)
      [] st.sql = "execute INSERT" ->
            InsertRow(tbl, st.args[1], st.args[2], st.args[3], st.args[4],
                      st.args[5])
      [] st.sql = "execute UPDATE sent" -> UpdateSent(tbl, st.args[1])
      [] st.sql = "execute UPDATE failure" ->
            UpdateFailure(tbl, st.args[1], st.args[2])
      [] st.sql = "execute UPDATE expired" -> UpdateExpired(tbl, st.args[1])
      [] OTHER -> tbl

(* The calls each operation makes on the store, in order, at time t. *)
StatementsOf(op, args, t) ==
    CASE op = "open" ->
            <<Stmt("Connection::open", <<>>), Stmt("execute_batch CREATE", <<>>)>>
      [] op = "enqueue" ->
            <<Stmt("execute INSERT", args \o <<to_rfc3339(t)>>)>>
      [] op = "pending_within_window" ->
            <<Stmt("prepare SELECT", <<>>), Stmt("query_map", <<Cutoff(t)>>),
              Stmt("collect", <<>>)>>
      [] op = "mark_sent" -> <<Stmt("execute UPDATE sent", args)>>
      [] op = "record_failure" -> <<Stmt("execute UPDATE failure", args)>>
      [] op = "expire_old_bundles" ->
            <<Stmt("execute UPDATE expired", <<Cutoff(t)>>)>>
      [] op = "stats" ->
            <<Stmt("query_row COUNT pending", <<>>),
              Stmt("query_row COUNT sent", <<>>),
              Stmt("query_row COUNT failed", <<>>)>>

(* The table after the calls up to the rejected one (all of them when none  *)
(* is rejected: rejected = 0).                                              *)
RECURSIVE Run(_, _, _)
Run(tbl, stmts, rejected) ==
    IF stmts = <<>> \/ rejected = 1 THEN tbl
    ELSE Run(Exec(tbl, Head(stmts)), Tail(stmts),
             IF rejected = 0 THEN 0 ELSE rejected - 1)

(* A variant of ResultsOf: record_failure returns an error when its UPDATE   *)
(* changed no row or made the row failed.                                   *)
ResultsOfRaising(op, before, after, t) ==
    CASE op = "enqueue" -> {MaxId(after)}
      [] op = "pending_within_window" -> SelectPending(before, Cutoff(t))
      [] op = "expire_old_bundles" -> {ExpiredCount(before, Cutoff(t))}
      [] op = "stats" -> {QueueStats(CountStatus(before, Pending),
                                     CountStatus(before, Sent),
                                     CountStatus(before, Failed))}
      [] op = "record_failure" ->
            IF after = before
               \/ \E i \in DOMAIN after :
                     after[i] # before[i] /\ after[i].status = Failed
            THEN {"Err"} ELSE {"Ok"}
      [] OTHER -> {"Ok"}

(* What the operation returns inside Ok when no call is rejected. *)
ResultsOf(op, before, after, t) ==
    CASE op = "enqueue" -> {MaxId(after)}
      [] op = "pending_within_window" -> SelectPending(before, Cutoff(t))
      [] op = "expire_old_bundles" -> {ExpiredCount(before, Cutoff(t))}
      [] op = "stats" -> {QueueStats(CountStatus(before, Pending),
                                     CountStatus(before, Sent),
                                     CountStatus(before, Failed))}
      [] OTHER -> {"Ok"}

(* A variant of Try that returns Ok whatever the store answered. *)
TryAbsorbing(op, args, rejected) ==
    /\ rejected \in 0..Len(StatementsOf(op, args, now))
    /\ pending_bundles' = Run(pending_bundles, StatementsOf(op, args, now), rejected)
    /\ last' = CallIo(op, args, "Ok", rejected)
    /\ UNCHANGED <<now, conn, failures, batch, cr>>

(* One operation, from call to return, with the store rejecting its call    *)
(* number `rejected` (none when 0).                                         *)
Try(op, args, rejected) ==
    /\ rejected \in 0..Len(StatementsOf(op, args, now))
    /\ pending_bundles' = Run(pending_bundles, StatementsOf(op, args, now), rejected)
    /\ \E ret \in (IF rejected = 0
                   THEN ResultsOf(op, pending_bundles, pending_bundles', now)
                   ELSE {Err}) :
          last' = CallIo(op, args, ret, rejected)
    /\ UNCHANGED <<now, conn, failures, batch, cr>>

(* The process dies between two operations; the file stays as it is. *)
Crash ==
    /\ last.op # "crash"
    /\ last' = CallIo("crash", <<>>, "none", 0)
    /\ UNCHANGED <<pending_bundles, now, conn, failures, batch, cr>>

InitStore ==
    /\ pending_bundles = <<>>
    /\ now = 0
    /\ last = CallIo("open", <<>>, "Ok", 0)
    /\ conn = [c \in Conns |-> Idle]
    /\ failures = [id \in RowIds |-> 0]
    /\ batch = <<>>
    /\ cr = NoLookup

(* After a crash the next call is open; a queue whose open failed is not    *)
(* there to be called.                                                      *)
Opened == last.op # "crash" /\ ~(last.op = "open" /\ last.ret = Err)

NextStore ==
    \/ \E k \in 0..2 : Try("open", <<>>, k)
    \/ \E b \in BundleIds, j \in Payloads, p \in PatientIds, c \in ClinicIds,
          k \in 0..1 :
          /\ Opened /\ Len(pending_bundles) < MaxStoreRows
          /\ Try("enqueue", <<b, j, p, c>>, k)
    \/ \E k \in 0..3 : Opened /\ Try("pending_within_window", <<>>, k)
    \/ \E id \in 1..(MaxStoreRows + 1), k \in 0..1 :
          Opened /\ Try("mark_sent", <<id>>, k)
    \/ \E id \in 1..(MaxStoreRows + 1), e \in Errors, k \in 0..1 :
          /\ Opened /\ SumRetries(pending_bundles) < MaxFailures
          /\ Try("record_failure", <<id, e>>, k)
    \/ \E k \in 0..1 : Opened /\ Try("expire_old_bundles", <<>>, k)
    \/ \E k \in 0..3 : Opened /\ Try("stats", <<>>, k)
    \/ Crash
    \/ \E d \in TickDays : now + d <= MaxTime /\ Tick(d)

SpecStore == InitStore /\ [][NextStore]_vars

----------------------------------------------------------------------------
(* C16: when the store rejects one of an operation's calls, the operation   *)
(* returns an error, not success, and the rows are as they were before the  *)
(* operation.                                                               *)
C16_RejectionIsReturned ==
    [][last'.rejected # 0
          => /\ last'.ret = Err
             /\ pending_bundles' = pending_bundles]_vars

(* record_failure has returned an error on a row with a recorded failure:   *)
(* the store rejected its UPDATE.                                           *)
C16_FailureNotRecorded ==
    /\ last.op = "record_failure"
    /\ last.rejected = 1
    /\ last.ret = Err
    /\ HasRow(pending_bundles, last.args[1])
    /\ RowById(pending_bundles, last.args[1]).retry_count = 1

(* C17: a crash between operations and the open that follows leave every    *)
(* row as the last completed operation left it: open on an existing store   *)
(* changes, resets and removes no row, however often it is called.          *)
C17_OpenKeepsRows ==
    [][last'.op \in {"crash", "open"} => pending_bundles' = pending_bundles]_vars

(* The store has been opened again and holds a row that had failed at the  *)
(* retry ceiling.                                                           *)
C17_ReopenedWithRows ==
    /\ last = CallIo("open", <<>>, "Ok", 0)
    /\ \E i \in DOMAIN pending_bundles :
          /\ pending_bundles[i].status = Failed
          /\ pending_bundles[i].retry_count = RetryCeiling

----------------------------------------------------------------------------
(* cr_lookup.rs: the Client Registry lookup.  Option<T> is a sequence of    *)
(* at most one T; a JSON value is a record of its kind and, by kind, its    *)
(* string, its array items or its object keys with their values.            *)

CurlMaxTime == 5    \* "--max-time", "5"

NationalIds == {"27845612", "99999999", "27845619"}
Tokens == {"secret"}
BaseUrls == {"http://cr.test"}
RegistryIds ==
    {"CR-12345", "12345", "CR-CR-1", "cr-7", "", "CR-SYNTH-08e9f5a035cd5e81b9"}
HttpStatuses == {200, 404, 500}

Some(x) == <<x>>
None == <<>>

(* opt.and_then(F), the `?` on an Option *)
AndThen(opt, F(_)) == IF opt = None THEN None ELSE F(opt[1])

Json(kind, str, items, keys, vals) ==
    [kind |-> kind, str |-> str, items |-> items, keys |-> keys, vals |-> vals]

JsonString(s) == Json("string", s, <<>>, <<>>, <<>>)
JsonNumber == Json("number", "", <<>>, <<>>, <<>>)
JsonArray(items) == Json("array", "", items, <<>>, <<>>)
JsonObject(keys, vals) == Json("object", "", <<>>, keys, vals)

(* serde_json::Value::get(key), as_array, as_str; slice::first *)
get(v, key) ==
    IF v.kind = "object" /\ \E i \in DOMAIN v.keys : v.keys[i] = key
    THEN Some(v.vals[CHOOSE i \in DOMAIN v.keys : v.keys[i] = key])
    ELSE None

as_array(v) == IF v.kind = "array" THEN Some(v.items) ELSE None

as_str(v) == IF v.kind = "string" THEN Some(v.str) ELSE None

first(items) == IF items = <<>> THEN None ELSE Some(items[1])

starts_with(s, prefix) ==
    Len(s) >= Len(prefix) /\ SubSeq(s, 1, Len(prefix)) = prefix

(* What curl wrote to stdout: whether the bytes are UTF-8 and, when the    *)
(* text is JSON, the value it parses to.                                    *)
Stdout(utf8, json) == [utf8 |-> utf8, json |-> json]

(* String::from_utf8(output.stdout).ok() *)
from_utf8(stdout) == IF stdout.utf8 THEN Some(stdout) ELSE None

(* serde_json::from_str(json).ok() *)
from_str(text) == text.json

PatientBundle(id) ==
    JsonObject(<<"resourceType", "entry">>,
               <<JsonString("Bundle"),
                 JsonArray(<<JsonObject(<<"resource">>,
                                        <<JsonObject(<<"resourceType", "id">>,
                                                     <<JsonString("Patient"),
                                                       id>>)>>)>>)>>)

(* The bodies the registry, or whatever answers in its place, may send. *)
Bodies ==
    {Stdout(FALSE, None),
     Stdout(TRUE, None),
     Stdout(TRUE, Some(JsonArray(<<>>))),
     Stdout(TRUE, Some(JsonObject(<<"resourceType">>,
                                  <<JsonString("OperationOutcome")>>))),
     Stdout(TRUE, Some(JsonObject(<<"entry">>, <<JsonString("none")>>))),
     Stdout(TRUE, Some(JsonObject(<<"entry">>, <<JsonArray(<<>>)>>))),
     Stdout(TRUE, Some(JsonObject(<<"entry">>,
                                  <<JsonArray(<<JsonObject(<<"fullUrl">>,
                                                           <<JsonString("x")>>)>>)>>))),
     Stdout(TRUE, Some(JsonObject(<<"entry">>,
                                  <<JsonArray(<<JsonObject(<<"resource">>,
                                       <<JsonObject(<<"resourceType">>,
                                                    <<JsonString("Patient")>>)>>)>>)>>))),
     Stdout(TRUE, Some(PatientBundle(JsonNumber)))}
    \cup {Stdout(TRUE, Some(PatientBundle(JsonString(id)))) : id \in RegistryIds}

CurlOutput(spawned, exit, http, stdout) ==
    [spawned |-> spawned, exit |-> exit, http |-> http, stdout |-> stdout]

(* What Command::new("curl") ... .output() may give.  curl is run with      *)
(* --silent and --max-time and without --fail: it exits with 0 whenever a   *)
(* response arrived, whatever its HTTP status, with the response body on    *)
(* stdout; it exits with 7 when it cannot connect and with 28 when          *)
(* --max-time runs out; the process may also fail to start.                 *)
CurlOutputs ==
    {CurlOutput(FALSE, 0, 0, Stdout(TRUE, None))}
    \cup {CurlOutput(TRUE, e, 0, Stdout(TRUE, None)) : e \in {7, 28}}
    \cup {CurlOutput(TRUE, 0, h, b) : h \in HttpStatuses, b \in Bodies}

(* A variant of extract_cr_id_from_response that gives None for an id       *)
(* without the "CR-" prefix.                                                *)
extract_cr_id_prefixed_only(json) ==
    LET v == from_str(json)
        arr == AndThen(AndThen(v, LAMBDA x : get(x, "entry")), as_array)
        entry == AndThen(arr, first)
        resource == AndThen(entry, LAMBDA x : get(x, "resource"))
        id == AndThen(AndThen(resource, LAMBDA x : get(x, "id")), as_str)
    IN  AndThen(id, LAMBDA s : IF starts_with(s, "CR-") THEN Some(s) ELSE None)

(* A variant of extract_cr_id_from_response that puts "CR-" in front of     *)
(* every id, prefixed or not.                                               *)
extract_cr_id_always_tagged(json) ==
    LET v == from_str(json)
        arr == AndThen(AndThen(v, LAMBDA x : get(x, "entry")), as_array)
        entry == AndThen(arr, first)
        resource == AndThen(entry, LAMBDA x : get(x, "resource"))
        id == AndThen(AndThen(resource, LAMBDA x : get(x, "id")), as_str)
    IN  AndThen(id, LAMBDA s : Some("CR-" \o s))

extract_cr_id_from_response(json) ==
    LET v == from_str(json)
        arr == AndThen(AndThen(v, LAMBDA x : get(x, "entry")), as_array)
        entry == AndThen(arr, first)
        resource == AndThen(entry, LAMBDA x : get(x, "resource"))
        id == AndThen(AndThen(resource, LAMBDA x : get(x, "id")), as_str)
    IN  AndThen(id, LAMBDA s : IF starts_with(s, "CR-")
                               THEN Some(s)
                               ELSE Some("CR-" \o s))

(* Uuid::new_v5(&NS, seed).simple().to_string() for the seeds of the model *)
new_v5_simple(seed) ==
    CASE seed = "cr:27845612" -> "08e9f5a035cd5e81b9f66ee897e77dd3"
      [] seed = "cr:99999999" -> "2abcbb722760531ea4965a214aba7207"
      [] seed = "cr:27845619" -> "2fa953f5454f558386d89f07bd2b9357"

(* A variant of synthetic_cr_id that keeps the seed of the call before and  *)
(* derives the identifier from it.                                          *)
synthetic_cr_id_stale(national_id) ==
    LET seed == "cr:" \o (IF cr.national_id = "" THEN national_id
                          ELSE cr.national_id)
        hex == new_v5_simple(seed)
    IN  "CR-SYNTH-" \o SubSeq(hex, 1, 18)

(* A variant of synthetic_cr_id that keeps one hex digit of the digest. *)
synthetic_cr_id_one_digit(national_id) ==
    LET seed == "cr:" \o national_id
        hex == new_v5_simple(seed)
    IN  "CR-SYNTH-" \o SubSeq(hex, 1, 1)

synthetic_cr_id(national_id) ==
    LET seed == "cr:" \o national_id
        hex == new_v5_simple(seed)
    IN  "CR-SYNTH-" \o SubSeq(hex, 1, 18)

Request(token, url) ==
    [program       |-> "curl",
     max_time      |-> CurlMaxTime,
     authorization |-> "Bearer " \o token,
     accept        |-> "application/fhir+json",
     url           |-> url]

Lookup(ret, requests, output) ==
    [ret |-> ret, requests |-> requests, output |-> output]

(* A variant of try_live_cr_lookup that runs curl without the Authorization *)
(* header when AFYALINK_TOKEN is not set.                                   *)
try_live_cr_lookup_anonymous(national_id, token, base_url, out) ==
    LET base == IF base_url = None THEN "https://uat.dha.go.ke" ELSE base_url[1]
        url == base \o "/v1/patient-search?identification_number="
                    \o national_id
        request == Request(IF token = None THEN "" ELSE token[1], url)
    IN  IF ~out.spawned THEN Lookup(None, <<>>, <<out>>)
        ELSE IF out.exit # 0 THEN Lookup(None, <<request>>, <<out>>)
        ELSE Lookup(AndThen(from_utf8(out.stdout), extract_cr_id_from_response),
                    <<request>>, <<out>>)

(* try_live_cr_lookup: what it returns, the requests curl sent for it, and  *)
(* the process output it read (none when curl was not run).                 *)
try_live_cr_lookup(national_id, token, base_url, out) ==
    IF token = None THEN Lookup(None, <<>>, <<>>)
    ELSE LET base == IF base_url = None THEN "https://uat.dha.go.ke"
                     ELSE base_url[1]
             url == base \o "/v1/patient-search?identification_number="
                         \o national_id
             request == Request(token[1], url)
         IN  IF ~out.spawned THEN Lookup(None, <<>>, <<out>>)
             ELSE IF out.exit # 0 THEN Lookup(None, <<request>>, <<out>>)
             ELSE Lookup(AndThen(from_utf8(out.stdout),
                                 extract_cr_id_from_response),
                         <<request>>, <<out>>)

CrLookupResult(cr_id, live) == [cr_id |-> cr_id, live |-> live]

resolve_cr_id(national_id, out) ==
    /\ LET t == try_live_cr_lookup(national_id, cr.AFYALINK_TOKEN,
                                   cr.AFYALINK_BASE_URL, out)
           r == IF t.ret # None
                THEN CrLookupResult(t.ret[1], TRUE)
                ELSE CrLookupResult(synthetic_cr_id(national_id), FALSE)
       IN  cr' = [cr EXCEPT
                    !.national_id = national_id,
                    !.requests = t.requests,
                    !.output = t.output,
                    !.result = <<r>>,
                    !.seen = IF cr.AFYALINK_TOKEN = None
                             THEN @ \cup {<<cr.run, national_id, r.cr_id>>}
                             ELSE @]
    /\ UNCHANGED <<pending_bundles, now, last, conn, failures, batch>>

(* The process starts with either variable set or not. *)
InitCr ==
    /\ pending_bundles = <<>>
    /\ now = 0
    /\ last = Call("open", <<>>, "Ok")
    /\ conn = [c \in Conns |-> Idle]
    /\ failures = [id \in RowIds |-> 0]
    /\ batch = <<>>
    /\ \E token \in {None} \cup {Some(t) : t \in Tokens},
          base \in {None} \cup {Some(b) : b \in BaseUrls} :
          cr = [NoLookup EXCEPT !.AFYALINK_TOKEN = token,
                                !.AFYALINK_BASE_URL = base]

NextCr == \E national_id \in NationalIds, out \in CurlOutputs :
             resolve_cr_id(national_id, out)

SpecCr == InitCr /\ [][NextCr]_vars

----------------------------------------------------------------------------
(* The strings at entry[0].resource.id of a body: one, or none. *)
IdsFound(stdout) ==
    {s \in RegistryIds :
        /\ stdout.utf8
        /\ stdout.json # None
        /\ LET v == stdout.json[1]
           IN  /\ v.kind = "object"
               /\ \E i \in DOMAIN v.keys :
                     /\ v.keys[i] = "entry"
                     /\ v.vals[i].kind = "array"
                     /\ Len(v.vals[i].items) >= 1
                     /\ LET e == v.vals[i].items[1]
                        IN  /\ e.kind = "object"
                            /\ \E j \in DOMAIN e.keys :
                                  /\ e.keys[j] = "resource"
                                  /\ e.vals[j].kind = "object"
                                  /\ \E k \in DOMAIN e.vals[j].keys :
                                        /\ e.vals[j].keys[k] = "id"
                                        /\ e.vals[j].vals[k] = JsonString(s)}

(* C18: resolve is total: whatever national_id and whatever the live        *)
(* attempt came to, the call returns one CrLookupResult; its provenance is  *)
(* true exactly when curl ran, exited with success and its output parsed to *)
(* a body with a string at entry[0].resource.id, and the identifier is then *)
(* that string (with "CR-" put in front if it lacked it); otherwise the     *)
(* provenance is false and the identifier is the synthetic one.             *)
C18_ResolveIsTotal ==
    cr.national_id # ""
    => /\ Len(cr.result) = 1
       /\ LET r == cr.result[1]
              ids == IF cr.output # <<>> /\ cr.output[1].spawned
                        /\ cr.output[1].exit = 0
                     THEN IdsFound(cr.output[1].stdout)
                     ELSE {}
          IN  /\ r.live \in BOOLEAN
              /\ r.live <=> ids # {}
              /\ \A s \in ids : r.cr_id \in {s, "CR-" \o s}
              /\ ids = {} => r.cr_id = synthetic_cr_id(cr.national_id)

(* The registry answered 200 with a Patient whose id has no "CR-" prefix,   *)
(* and resolve returned the identifier with provenance true.                *)
C18_ResolvedLive ==
    /\ cr.national_id # ""
    /\ cr.output # <<>>
    /\ cr.output[1].http = 200
    /\ "12345" \in IdsFound(cr.output[1].stdout)
    /\ cr.result = <<CrLookupResult("CR-12345", TRUE)>>

(* C19: when the live lookup ends in a process or transport error, a        *)
(* timeout, a non-success HTTP status, a malformed body or a body without   *)
(* entry[0].resource.id, resolve returns the synthetic identifier with      *)
(* provenance false, whatever else the response holds.                      *)
C19_FailuresFallBack ==
    (/\ cr.output # <<>>
     /\ LET out == cr.output[1]
        IN  \/ ~out.spawned
            \/ out.exit # 0
            \/ out.http \notin 200..299
            \/ ~out.stdout.utf8
            \/ out.stdout.json = None
            \/ IdsFound(out.stdout) = {})
    => cr.result = <<CrLookupResult(synthetic_cr_id(cr.national_id), FALSE)>>

(* C20: when AFYALINK_TOKEN is not set, resolve sends no request and runs   *)
(* no process, and returns the synthetic identifier of national_id with     *)
(* provenance false, whether AFYALINK_BASE_URL is set or not.               *)
C20_NoTokenNoRequest ==
    (cr.national_id # "" /\ cr.AFYALINK_TOKEN = None)
    => /\ cr.requests = <<>>
       /\ cr.output = <<>>
       /\ cr.result = <<CrLookupResult(synthetic_cr_id(cr.national_id), FALSE)>>

(* resolve has returned with the token not set and the base address set. *)
C20_BaseSetTokenNot ==
    /\ cr.national_id # ""
    /\ cr.AFYALINK_TOKEN = None
    /\ cr.AFYALINK_BASE_URL # None
    /\ cr.result # <<>>
    /\ ~cr.result[1].live

----------------------------------------------------------------------------
(* C21: an identifier returned with provenance true starts with "CR-"; a    *)
(* registry id that starts with "CR-" is returned as it is, any other id is *)
(* returned with "CR-" put in front of it, once; and a registry that hands  *)
(* back the returned identifier as its id gets the same identifier again.   *)
C21_LivePrefixedOnce ==
    (cr.result # <<>> /\ cr.result[1].live)
    => LET c == cr.result[1].cr_id
       IN  /\ starts_with(c, "CR-")
           /\ \A s \in IdsFound(cr.output[1].stdout) :
                 /\ starts_with(s, "CR-") => c = s
                 /\ ~starts_with(s, "CR-")
                       => /\ c = "CR-" \o s
                          /\ SubSeq(c, 4, Len(c)) = s
           /\ extract_cr_id_from_response(
                  Stdout(TRUE, Some(PatientBundle(JsonString(c))))) = Some(c)

(* The registry gave a Patient whose id starts with "CR-" twice over, and   *)
(* resolve returned that id as it came.                                     *)
C21_PrefixedIdUnchanged ==
    /\ cr.result = <<CrLookupResult("CR-CR-1", TRUE)>>
    /\ cr.output[1].http = 200
    /\ IdsFound(cr.output[1].stdout) = {"CR-CR-1"}

----------------------------------------------------------------------------
(* Runs of the process, one after the other: each starts with its own       *)
(* environment and no lookup made; nothing of the run before is left but    *)
(* the history.                                                             *)
Restart ==
    /\ cr.national_id # ""
    /\ cr.run < MaxRuns
    /\ \E token \in {None} \cup {Some(t) : t \in Tokens},
          base \in {None} \cup {Some(b) : b \in BaseUrls} :
          cr' = [NoLookup EXCEPT !.AFYALINK_TOKEN = token,
                                 !.AFYALINK_BASE_URL = base,
                                 !.seen = cr.seen,
                                 !.run = cr.run + 1]
    /\ UNCHANGED <<pending_bundles, now, last, conn, failures, batch>>

(* What curl gives in these runs: it does not start, it times out, or the  *)
(* registry answers with a Patient.                                         *)
RunOutputs ==
    {CurlOutput(FALSE, 0, 0, Stdout(TRUE, None)),
     CurlOutput(TRUE, 28, 0, Stdout(TRUE, None)),
     CurlOutput(TRUE, 0, 200, Stdout(TRUE, Some(PatientBundle(JsonString("12345")))))}

NextRuns ==
    \/ \E national_id \in NationalIds, out \in RunOutputs :
          resolve_cr_id(national_id, out)
    \/ Restart

SpecRuns == InitCr /\ [][NextRuns]_vars

----------------------------------------------------------------------------
(* The form of a synthetic identifier: "CR-SYNTH-" and 18 more characters. *)
HasSyntheticForm(id) == starts_with(id, "CR-SYNTH-") /\ Len(id) = 9 + 18

(* C23: no identifier returned with provenance false starts with "CR-", the *)
(* prefix of a live identifier, and no identifier returned with provenance  *)
(* true has the synthetic form: the string tells which of the two it is.    *)
C23_FormsNeverCollide ==
    cr.result # <<>>
    => LET r == cr.result[1]
       IN  /\ ~r.live => ~starts_with(r.cr_id, "CR-")
           /\ r.live => ~HasSyntheticForm(r.cr_id)

----------------------------------------------------------------------------
----------------------------------------------------------------------------
(* The queue with a few rows, watched row by row: what each operation       *)
(* leaves alone.                                                            *)

NextFrame ==
    \/ \E b \in BundleIds, j \in Payloads, p \in PatientIds, c \in ClinicIds :
          Len(pending_bundles) < MaxFrameRows /\ enqueue(b, j, p, c)
    \/ \E id \in 1..(MaxFrameRows + 1) : mark_sent(id)
    \/ \E id \in 1..(MaxFrameRows + 1), e \in Errors :
          SumRetries(pending_bundles) < MaxFrameFailures /\ record_failure(id, e)
    \/ expire_old_bundles
    \/ \E d \in TickDays : now + d <= MaxTime /\ Tick(d)

SpecFrame == Init /\ [][NextFrame]_vars

(* C25: every row keeps its id, bundle_id, bundle_json, patient_id,         *)
(* clinic_id and created_at under every enqueue, mark_sent, record_failure  *)
(* and expire_old_bundles, and mark_sent and record_failure change no field *)
(* of a row other than the one with the row_id they were given.             *)
C25_ContentFrame ==
    [][/\ \A i \in DOMAIN pending_bundles :
             /\ i \in DOMAIN pending_bundles'
             /\ pending_bundles'[i].id = pending_bundles[i].id
             /\ pending_bundles'[i].bundle_id = pending_bundles[i].bundle_id
             /\ pending_bundles'[i].bundle_json = pending_bundles[i].bundle_json
             /\ pending_bundles'[i].patient_id = pending_bundles[i].patient_id
             /\ pending_bundles'[i].clinic_id = pending_bundles[i].clinic_id
             /\ pending_bundles'[i].created_at = pending_bundles[i].created_at
       /\ last'.op \in {"mark_sent", "record_failure"}
             => \A i \in DOMAIN pending_bundles :
                   pending_bundles[i].id # last'.args[1]
                       => pending_bundles'[i] = pending_bundles[i]]_vars

(* record_failure has returned on the second row, eight days after the      *)
(* first row was enqueued and failed once; the first row is as it was.      *)
C25_OtherRowUntouched ==
    /\ last = Call("record_failure", <<2, "timeout">>, "Ok")
    /\ Len(pending_bundles) = 2
    /\ pending_bundles[1].status = Pending
    /\ pending_bundles[1].retry_count = 1
    /\ TimeOf(pending_bundles[1].created_at) = 0
    /\ pending_bundles[2].retry_count = 1
    /\ TimeOf(pending_bundles[2].created_at) = 8

----------------------------------------------------------------------------
(* The text the sweep is said to write. *)
ClaimedExpiredText == "transmission window expired"

----------------------------------------------------------------------------
(* C27: when the store rejects nothing, record_failure returns Ok whether   *)
(* the row stays pending, becomes failed at the retry ceiling or does not   *)
(* exist (and then no row changes), and expire_old_bundles returns the      *)
(* number of rows it expired, which may be 0: neither returns an error.     *)
C27_FailureIsData ==
    [][(last'.rejected = 0 /\ now' = now)
          => /\ last'.op = "record_failure"
                   => /\ last'.ret = "Ok"
                      /\ ~HasRow(pending_bundles, last'.args[1])
                            => pending_bundles' = pending_bundles
             /\ last'.op = "expire_old_bundles"
                   => /\ last'.ret \in 0..Len(pending_bundles)
                      /\ last'.ret = Cardinality(
                             {i \in DOMAIN pending_bundles :
                                 /\ pending_bundles[i].status = Pending
                                 /\ pending_bundles'[i].status = Failed})]_vars

(* record_failure has returned Ok on the call that took the row to the      *)
(* retry ceiling and made it failed.                                        *)
C27_CeilingReturnedOk ==
    /\ last.op = "record_failure"
    /\ last.rejected = 0
    /\ last.ret = "Ok"
    /\ HasRow(pending_bundles, last.args[1])
    /\ RowById(pending_bundles, last.args[1]).retry_count = RetryCeiling
    /\ RowById(pending_bundles, last.args[1]).status = Failed

----------------------------------------------------------------------------
(* The queue with failures recorded up to the retry ceiling and past it,    *)
(* on rows pending, sent, failed and expired.                               *)

NextCeiling ==
    \/ \E b \in BundleIds, j \in Payloads, p \in PatientIds, c \in ClinicIds :
          Len(pending_bundles) < MaxCeilingRows /\ enqueue(b, j, p, c)
    \/ pending_within_window
    \/ \E id \in 1..(MaxCeilingRows + 1) : mark_sent(id)
    \/ \E id \in 1..(MaxCeilingRows + 1), e \in Errors :
          SumRetries(pending_bundles) < MaxFailures /\ record_failure(id, e)
    \/ expire_old_bundles
    \/ \E d \in TickDays : now + d <= MaxTime /\ Tick(d)

SpecCeiling == Init /\ [][NextCeiling]_vars

(* C28: a pending row has retry_count at most 9, and no row that            *)
(* pending_within_window returned has 10 or more recorded failures.         *)
C28_PendingBelowCeiling ==
    /\ \A i \in DOMAIN pending_bundles :
          pending_bundles[i].status = Pending
              => pending_bundles[i].retry_count <= 9
    /\ last.op = "pending_within_window"
          => \A k \in DOMAIN last.ret : last.ret[k].retry_count < 10

(* pending_within_window has returned a row on which nine failures were     *)
(* recorded.                                                                *)
C28_OfferedAfterNine ==
    /\ last.op = "pending_within_window"
    /\ Len(last.ret) = 1
    /\ last.ret[1].retry_count = 9
    /\ pending_bundles[1].status = Pending

(* C30: a failed row has a last_error that is not NULL; a row has NULL when *)
(* it is inserted, and its last_error changes only in record_failure called *)
(* with its id and in an expire_old_bundles that expires it.                *)
C30_LastErrorTellsWhy ==
    /\ [](\A i \in DOMAIN pending_bundles :
             pending_bundles[i].status = Failed
                 => pending_bundles[i].last_error # NULL)
    /\ [][\A i \in DOMAIN pending_bundles' :
             /\ i \notin DOMAIN pending_bundles
                   => pending_bundles'[i].last_error = NULL
             /\ (/\ i \in DOMAIN pending_bundles
                 /\ pending_bundles'[i].last_error # pending_bundles[i].last_error)
                   => \/ /\ last'.op = "record_failure"
                         /\ last'.args[1] = pending_bundles[i].id
                      \/ /\ last'.op = "expire_old_bundles"
                         /\ Expirable(pending_bundles[i], Cutoff(now))]_vars

(* A row that was sent without a failure and never expired has NULL, eight  *)
(* days after it was enqueued.                                              *)
C30_SentRowHasNull ==
    /\ now = 8
    /\ Len(pending_bundles) = 1
    /\ TimeOf(pending_bundles[1].created_at) = 0
    /\ pending_bundles[1].status = Sent
    /\ pending_bundles[1].retry_count = 0
    /\ pending_bundles[1].last_error = NULL
    /\ last.op = "expire_old_bundles"

----------------------------------------------------------------------------
(* Row i is among the rows pending_within_window would return now. *)
Offered(tbl, i, t) ==
    \E rows \in SelectPending(tbl, Cutoff(t)) :
        \E k \in DOMAIN rows : rows[k].row_id = tbl[i].id

(* Row i is among the rows expire_old_bundles would transition now. *)
Swept(tbl, i, t) ==
    UpdateExpired(tbl, Cutoff(t))[i] # tbl[i]

(* C29: at any one instant every pending row is either among the rows       *)
(* pending_within_window returns or among the rows expire_old_bundles       *)
(* transitions, and not both; a row that is not pending is in neither.      *)
C29_WindowAndSweepPartition ==
    \A i \in DOMAIN pending_bundles :
        IF pending_bundles[i].status = Pending
        THEN Offered(pending_bundles, i, now) # Swept(pending_bundles, i, now)
        ELSE ~Offered(pending_bundles, i, now) /\ ~Swept(pending_bundles, i, now)

(* Exactly seven days after a row was enqueued and is still pending: it is  *)
(* offered and not swept; a row enqueued now is offered too.                *)
C29_OnTheBoundary ==
    /\ now = 7
    /\ Len(pending_bundles) = 2
    /\ pending_bundles[1].status = Pending
    /\ TimeOf(pending_bundles[1].created_at) = 0
    /\ Offered(pending_bundles, 1, now)
    /\ ~Swept(pending_bundles, 1, now)
    /\ TimeOf(pending_bundles[2].created_at) = 7

====
